---- MODULE Spec2Model ----
(***************************************************************************)
(* Sudoku generator of Zad_8/Zad_8.py: bitmask constraint state, MRV cell  *)
(* selection, the two backtracking searches (count_solutions, solve_one),  *)
(* generate_full_grid, remove_cells_unique and generate_puzzle.            *)
(*                                                                         *)
(* The grid is the 9x9 grid of the source; masks are integers.             *)
(* A search is a stack machine: one frame per active backtrack() call.     *)
(***************************************************************************)
EXTENDS Integers, Sequences, FiniteSets, TLC

\* ------------------------------------------------------------------------
\* Bit masks (Zad_8.py:8-16)
\* ------------------------------------------------------------------------
Idx == 0..8
Digits == 1..9

ALL_MASK == 2^9 - 1

bit(d) == 2^(d - 1)

box_index(r, c) == (r \div 3) * 3 + (c \div 3)

\* Python's integers are unbounded; the masks of the model are MaxValue bits
\* wide, which holds bit(v) for every cell value 1..MaxValue of the inputs.
MaxValue == 10

Bits == 1..MaxValue

\* The positions whose bit is set in a mask: the meaning of `mask & bit(d)`.
BitsOf == [m \in 0..(2^MaxValue - 1) |-> {d \in Bits : (m \div bit(d)) % 2 = 1}]

RECURSIVE SumBits(_)
SumBits(S) == IF S = {} THEN 0
              ELSE LET d == CHOOSE x \in S : TRUE IN bit(d) + SumBits(S \ {d})

\* The integer with exactly the bits of S set.
MaskOf == [S \in SUBSET Bits |-> SumBits(S)]

\* a | b, a & ~b and int.bit_count() on these integers.
BitOr(a, b) == MaskOf[BitsOf[a] \cup BitsOf[b]]
BitAndNot(a, b) == MaskOf[BitsOf[a] \ BitsOf[b]]
bit_count(m) == Cardinality(BitsOf[m])

\* ------------------------------------------------------------------------
\* Constraint state and candidates (Zad_8.py:19-47)
\* ------------------------------------------------------------------------
\* build_masks: every occupied cell ORs bit(v) into the mask of its row, its
\* column and its box; an empty cell (v = 0) adds nothing.  OrCells is that
\* OR over the cells cs[i..] of one unit, taken in scan order.
RECURSIVE OrCells(_, _, _)
OrCells(grid, cs, i) ==
    IF i > Len(cs) THEN 0
    ELSE LET v == grid[cs[i][1]][cs[i][2]]
         IN IF v # 0 THEN BitOr(bit(v), OrCells(grid, cs, i + 1))
            ELSE OrCells(grid, cs, i + 1)

RowCells(r) == [i \in 1..9 |-> <<r, i - 1>>]
ColCells(c) == [i \in 1..9 |-> <<i - 1, c>>]
BoxCells(b) == [i \in 1..9 |-> <<(b \div 3) * 3 + ((i - 1) \div 3), (b % 3) * 3 + ((i - 1) % 3)>>]

\* bit(v) is 1 << (v - 1): a negative v makes the shift count negative, and
\* Python raises ValueError out of build_masks.
ShiftFails(grid) == \E r \in Idx, c \in Idx : grid[r][c] < 0

build_masks(grid) ==
    [row |-> [r \in Idx |-> OrCells(grid, RowCells(r), 1)],
     col |-> [c \in Idx |-> OrCells(grid, ColCells(c), 1)],
     box |-> [b \in Idx |-> OrCells(grid, BoxCells(b), 1)]]

\* Mutant: the box mask is left out of the used digits.
candidates_mask_NoBox(row, col, box, r, c) ==
    BitAndNot(ALL_MASK, BitOr(row[r], col[c]))

candidates_mask(row, col, box, r, c) ==
    LET used == BitOr(BitOr(row[r], col[c]), box[box_index(r, c)])
    IN BitAndNot(ALL_MASK, used)

\* digits_from_mask with rng = None: the digits of the mask in ascending order.
RECURSIVE DigitsFrom(_, _)
DigitsFrom(mask, d) ==
    IF d > 9 THEN <<>>
    ELSE IF d \in BitsOf[mask] THEN <<d>> \o DigitsFrom(mask, d + 1)
         ELSE DigitsFrom(mask, d + 1)

\* ------------------------------------------------------------------------
\* find_mrv_cell (Zad_8.py:50-69)
\* ------------------------------------------------------------------------
None == <<>>

\* The inner loop over c of row r. st = [best, best_cnt, done]: done is set by
\* the two early returns (a cell with no candidate, a cell with one).
RECURSIVE MrvRow(_, _, _, _, _, _, _)
MrvRow(grid, row, col, box, r, c, st) ==
    IF c = 9 \/ st.done THEN st
    ELSE IF grid[r][c] = 0
         THEN LET m == candidates_mask(row, col, box, r, c)
                  cnt == bit_count(m)
              IN IF cnt = 0
                 THEN [best |-> <<r, c, 0>>, best_cnt |-> st.best_cnt, done |-> TRUE]
                 ELSE IF cnt < st.best_cnt
                      THEN MrvRow(grid, row, col, box, r, c + 1,
                             [best |-> <<r, c, m>>, best_cnt |-> cnt, done |-> cnt = 1])
                      ELSE MrvRow(grid, row, col, box, r, c + 1, st)
         ELSE MrvRow(grid, row, col, box, r, c + 1, st)

RECURSIVE MrvScan(_, _, _, _, _, _)
MrvScan(grid, row, col, box, r, st) ==
    IF r = 9 \/ st.done THEN st.best
    ELSE MrvScan(grid, row, col, box, r + 1, MrvRow(grid, row, col, box, r, 0, st))

\* Mutant: best_cnt starts at 9, a cell with all nine candidates is never best.
find_mrv_cell_Start9(grid, row, col, box) ==
    MrvScan(grid, row, col, box, 0, [best |-> None, best_cnt |-> 9, done |-> FALSE])

\* Mutant: best starts as a cell instead of None.
find_mrv_cell_BestCell(grid, row, col, box) ==
    MrvScan(grid, row, col, box, 0, [best |-> <<0, 0, 0>>, best_cnt |-> 10, done |-> FALSE])

find_mrv_cell(grid, row, col, box) ==
    MrvScan(grid, row, col, box, 0, [best |-> None, best_cnt |-> 10, done |-> FALSE])

\* ------------------------------------------------------------------------
\* The random source: random.Random(seed), rng.shuffle, rng.randrange
\* (Zad_8.py:1, 46, 142, 156, 183, 190).  The generator is a value
\* determined by its seed; every draw advances it.
\* ------------------------------------------------------------------------
RandomOf(seed) == seed % 65537

RandNext(s) == (75 * s + 74) % 65537

\* seed = None (Zad_8.py:140, 181): the generator is seeded from the operating
\* system, to any of the values Entropy.
NoSeed == -1
MaxEntropy == 1

Entropy == 0..MaxEntropy

\* The generators random.Random(seed) can return.
Seedings(sd) == IF sd = NoSeed THEN {RandomOf(e) : e \in Entropy} ELSE {RandomOf(sd)}

\* rng.randrange(10**9): the draw and the generator after it.
randrange(s) == [value |-> RandNext(s) % 10^9, rng |-> RandNext(s)]


\* random.shuffle: for i = len-1 down to 1, swap x[i] with x[randbelow(i+1)].
\* x is a 1-based sequence, so position i of the source is i + 1 here.
RECURSIVE ShuffleFrom(_, _, _)
ShuffleFrom(x, i, s) ==
    IF i < 1 \/ x = <<>> THEN [list |-> x, rng |-> s]
    ELSE LET s1 == RandNext(s)
             j == s1 % (i + 1)
         IN ShuffleFrom([x EXCEPT ![i + 1] = x[j + 1], ![j + 1] = x[i + 1]], i - 1, s1)

shuffle(x, s) == ShuffleFrom(x, Len(x) - 1, s)

\* Mutant: range(2, 10), digit 1 is never a candidate.
digits_from_mask_From2(mask) == DigitsFrom(mask, 2)

\* digits_from_mask(mask, rng): ascending digits, shuffled when rng is given.
digits_from_mask(mask) == DigitsFrom(mask, 1)

digits_from_mask_rng(mask, s) == shuffle(DigitsFrom(mask, 1), s)

\* ------------------------------------------------------------------------
\* Grids
\* ------------------------------------------------------------------------
ZeroMasks == [i \in Idx |-> 0]

EmptyGrid == [r \in Idx |-> [c \in Idx |-> 0]]

Cells == Idx \X Idx

Rows == {{<<r, c>> : c \in Idx} : r \in Idx}
Cols == {{<<r, c>> : r \in Idx} : c \in Idx}
Boxes == {{<<r, c>> \in Cells : box_index(r, c) = b} : b \in Idx}
Units == Rows \cup Cols \cup Boxes

\* A legal grid: every value in 0..9 and no digit twice in a row, column or box.
Legal(g) ==
    /\ \A r \in Idx, c \in Idx : g[r][c] \in 0..9
    /\ \A u \in Units : \A p \in u, q \in u :
          (p # q /\ g[p[1]][p[2]] # 0) => g[p[1]][p[2]] # g[q[1]][q[2]]

Complete(g) == \A r \in Idx, c \in Idx : g[r][c] # 0

Zeros(g) == Cardinality({p \in Cells : g[p[1]][p[2]] = 0})

\* ------------------------------------------------------------------------
\* State
\* ------------------------------------------------------------------------
VARIABLES
    op,        \* the function this behaviour calls at top level
    pc,        \* control position
    grid,      \* the grid a search works on (count_solutions' / solve_one's argument)
    row, col, box,   \* the masks of the running search (closure variables)
    stack,     \* active backtrack() calls, innermost last: [r, c, b, ds, d, total]
    ret,       \* value returned by the backtrack() call that just returned
    limit,     \* count_solutions' limit
    srng,      \* solve_one's rng
    seed,      \* generate_full_grid's seed
    entry,     \* the grid as it was when the search was called
    result,    \* what the top-level function returned
    full,      \* remove_cells_unique's argument
    symmetry,  \* remove_cells_unique's flag
    rng,       \* remove_cells_unique's (and generate_puzzle's) rng
    puzzle,    \* remove_cells_unique's puzzle in progress
    cells,     \* its shuffled visiting order
    ci,        \* 1-based position of its loop in cells
    backup,    \* the (rr, cc, value) triples recorded by the current visit
    before,    \* history: the puzzle as the current visit of the loop found it
    gseed,     \* generate_puzzle's seed (NoSeed: None)
    attempts,  \* generate_puzzle's attempts
    tries,     \* attempts of its loop already run
    solution,  \* the current attempt's full grid
    best_puzzle, best_solution, best_zeros,
    call,      \* which of the caller's two calls of generate_puzzle is running
    first,     \* what the first call returned
    dug,       \* history: the puzzles the attempts of the running call produced
    os_reads,  \* how often a generator was seeded from the operating system
    key, plain, cipher, back   \* self_test's locals (Zad_5.py): strings as code points

searchvars == <<op, pc, grid, row, col, box, stack, ret, limit, srng, seed, entry, result>>

searchvars_but_pc == <<op, grid, row, col, box, stack, ret, limit, srng, seed, entry, result>>

digvars == <<full, symmetry, rng, puzzle, cells, ci, backup, before>>

genvars == <<gseed, attempts, tries, solution, best_puzzle, best_solution, best_zeros, call, first, dug>>

ciphervars == <<key, plain, cipher, back>>

vars == <<searchvars, digvars, genvars, os_reads, ciphervars>>

Top == stack[Len(stack)]
Pop == SubSeq(stack, 1, Len(stack) - 1)

\* Mutant: the placement forgets the box mask.
Place_NoBox(r, c, b, d) ==
    /\ grid' = [grid EXCEPT ![r][c] = d]
    /\ row' = [row EXCEPT ![r] = BitOr(@, bit(d))]
    /\ col' = [col EXCEPT ![c] = BitOr(@, bit(d))]
    /\ UNCHANGED box

\* Mutant: `col[r] |= md`, the column mask is indexed by the row.
Place_ColByRow(r, c, b, d) ==
    /\ grid' = [grid EXCEPT ![r][c] = d]
    /\ row' = [row EXCEPT ![r] = BitOr(@, bit(d))]
    /\ col' = [col EXCEPT ![r] = BitOr(@, bit(d))]
    /\ box' = [box EXCEPT ![b] = BitOr(@, bit(d))]

\* grid[r][c] = d; row[r] |= md; col[c] |= md; box[b] |= md
Place(r, c, b, d) ==
    /\ grid' = [grid EXCEPT ![r][c] = d]
    /\ row' = [row EXCEPT ![r] = BitOr(@, bit(d))]
    /\ col' = [col EXCEPT ![c] = BitOr(@, bit(d))]
    /\ box' = [box EXCEPT ![b] = BitOr(@, bit(d))]

\* Mutant: the undo clears the cell and forgets the masks.
Undo_KeepMasks(r, c, b, d) ==
    /\ grid' = [grid EXCEPT ![r][c] = 0]
    /\ UNCHANGED <<row, col, box>>

\* Mutant: the undo forgets the column mask.
Undo_SkipCol(r, c, b, d) ==
    /\ box' = [box EXCEPT ![b] = BitAndNot(@, bit(d))]
    /\ row' = [row EXCEPT ![r] = BitAndNot(@, bit(d))]
    /\ grid' = [grid EXCEPT ![r][c] = 0]
    /\ UNCHANGED col

\* box[b] &= ~md; col[c] &= ~md; row[r] &= ~md; grid[r][c] = 0
Undo(r, c, b, d) ==
    /\ box' = [box EXCEPT ![b] = BitAndNot(@, bit(d))]
    /\ col' = [col EXCEPT ![c] = BitAndNot(@, bit(d))]
    /\ row' = [row EXCEPT ![r] = BitAndNot(@, bit(d))]
    /\ grid' = [grid EXCEPT ![r][c] = 0]

\* ------------------------------------------------------------------------
\* count_solutions (Zad_8.py:72-104)
\* ------------------------------------------------------------------------
\* row, col, box = build_masks(grid); then the first backtrack() call.
CountStart ==
    /\ pc = "count_start"
    /\ IF ShiftFails(grid)
       THEN /\ pc' = "raised"
            /\ UNCHANGED <<row, col, box, entry, stack>>
       ELSE /\ LET ms == build_masks(grid)
               IN /\ row' = ms.row
                  /\ col' = ms.col
                  /\ box' = ms.box
            /\ entry' = grid
            /\ stack' = <<>>
            /\ pc' = "count_call"
    /\ UNCHANGED <<op, grid, ret, limit, srng, seed, result>>
    /\ UNCHANGED <<digvars, genvars, os_reads, ciphervars>>

\* backtrack() up to its loop: lines 77-86.
CountCall ==
    /\ pc = "count_call"
    /\ LET cell == find_mrv_cell(grid, row, col, box)
       IN IF cell = None
          THEN /\ ret' = 1
               /\ pc' = "count_ret"
               /\ UNCHANGED stack
          ELSE IF cell[3] = 0
               THEN /\ ret' = 0
                    /\ pc' = "count_ret"
                    /\ UNCHANGED stack
               ELSE /\ stack' = Append(stack,
                          [r |-> cell[1], c |-> cell[2], b |-> box_index(cell[1], cell[2]),
                           ds |-> digits_from_mask(cell[3]), d |-> 0, total |-> 0])
                    /\ pc' = "count_loop"
                    /\ UNCHANGED ret
    /\ UNCHANGED <<op, grid, row, col, box, limit, srng, seed, entry, result>>
    /\ UNCHANGED <<digvars, genvars, os_reads, ciphervars>>

\* Mutant: the loop never moves on to the next digit.
CountPlace_SameDigit ==
    /\ pc = "count_loop"
    /\ Top.ds # <<>>
    /\ LET d == Head(Top.ds)
       IN /\ Place(Top.r, Top.c, Top.b, d)
          /\ stack' = [stack EXCEPT ![Len(stack)].d = d]
    /\ pc' = "count_call"
    /\ UNCHANGED <<op, ret, limit, srng, seed, entry, result>>
    /\ UNCHANGED <<digvars, genvars, os_reads, ciphervars>>

\* The loop takes its next digit and places it: lines 86-93, up to the call.
CountPlace ==
    /\ pc = "count_loop"
    /\ Top.ds # <<>>
    /\ LET d == Head(Top.ds)
       IN /\ Place(Top.r, Top.c, Top.b, d)
          /\ stack' = [stack EXCEPT ![Len(stack)].d = d, ![Len(stack)].ds = Tail(@)]
    /\ pc' = "count_call"
    /\ UNCHANGED <<op, ret, limit, srng, seed, entry, result>>
    /\ UNCHANGED <<digvars, genvars, os_reads, ciphervars>>

\* The loop has no digit left: `return total`, line 102.
CountExhaust ==
    /\ pc = "count_loop"
    /\ Top.ds = <<>>
    /\ ret' = Top.total
    /\ stack' = Pop
    /\ pc' = "count_ret"
    /\ UNCHANGED <<op, grid, row, col, box, limit, srng, seed, entry, result>>
    /\ UNCHANGED <<digvars, genvars, os_reads, ciphervars>>

\* Mutant: `return total` inside the loop, after the first digit.
CountResume_ReturnInLoop ==
    /\ pc = "count_ret"
    /\ stack # <<>>
    /\ Undo(Top.r, Top.c, Top.b, Top.d)
    /\ ret' = Top.total + ret
    /\ stack' = Pop
    /\ pc' = "count_ret"
    /\ UNCHANGED <<op, limit, srng, seed, entry, result>>
    /\ UNCHANGED <<digvars, genvars, os_reads, ciphervars>>

\* Mutant: the limit is tested right after `total += backtrack()`, before the undo.
CountResume_StopBeforeUndo ==
    /\ pc = "count_ret"
    /\ stack # <<>>
    /\ LET total == Top.total + ret
       IN IF total >= limit
          THEN /\ ret' = total
               /\ stack' = Pop
               /\ pc' = "count_ret"
               /\ UNCHANGED <<grid, row, col, box>>
          ELSE /\ Undo(Top.r, Top.c, Top.b, Top.d)
               /\ stack' = [stack EXCEPT ![Len(stack)].total = total, ![Len(stack)].d = 0]
               /\ pc' = "count_loop"
               /\ UNCHANGED ret
    /\ UNCHANGED <<op, limit, srng, seed, entry, result>>
    /\ UNCHANGED <<digvars, genvars, os_reads, ciphervars>>

\* Mutant: the loop stops only once the total is above the limit.
CountResume_StrictlyAbove ==
    /\ pc = "count_ret"
    /\ stack # <<>>
    /\ LET total == Top.total + ret
       IN /\ Undo(Top.r, Top.c, Top.b, Top.d)
          /\ IF total > limit
             THEN /\ ret' = total
                  /\ stack' = Pop
                  /\ pc' = "count_ret"
             ELSE /\ stack' = [stack EXCEPT ![Len(stack)].total = total, ![Len(stack)].d = 0]
                  /\ pc' = "count_loop"
                  /\ UNCHANGED ret
    /\ UNCHANGED <<op, limit, srng, seed, entry, result>>
    /\ UNCHANGED <<digvars, genvars, os_reads, ciphervars>>

\* The recursive call returned into the loop: lines 93-101.
CountResume ==
    /\ pc = "count_ret"
    /\ stack # <<>>
    /\ LET total == Top.total + ret
       IN /\ Undo(Top.r, Top.c, Top.b, Top.d)
          /\ IF total >= limit
             THEN /\ ret' = total
                  /\ stack' = Pop
                  /\ pc' = "count_ret"
             ELSE /\ stack' = [stack EXCEPT ![Len(stack)].total = total, ![Len(stack)].d = 0]
                  /\ pc' = "count_loop"
                  /\ UNCHANGED ret
    /\ UNCHANGED <<op, limit, srng, seed, entry, result>>
    /\ UNCHANGED <<digvars, genvars, os_reads, ciphervars>>

\* The outermost backtrack() returned: `return backtrack()`, line 104.
CountReturn ==
    /\ pc = "count_ret"
    /\ stack = <<>>
    /\ op = "count_solutions"
    /\ result' = ret
    /\ pc' = "done"
    /\ UNCHANGED <<op, grid, row, col, box, stack, ret, limit, srng, seed, entry>>
    /\ UNCHANGED <<digvars, genvars, os_reads, ciphervars>>

\* ------------------------------------------------------------------------
\* One placement and its undo with nothing in between: the loop body of
\* backtrack() around its recursive call (Zad_8.py:74, 87-91, 95-98), at any
\* empty cell and with any of its candidates.
\* ------------------------------------------------------------------------
MasksBuild ==
    /\ pc = "masks_start"
    /\ LET ms == build_masks(grid)
       IN /\ row' = ms.row
          /\ col' = ms.col
          /\ box' = ms.box
    /\ entry' = grid
    /\ pc' = "masks_built"
    /\ UNCHANGED <<op, grid, stack, ret, limit, srng, seed, result>>
    /\ UNCHANGED <<digvars, genvars, os_reads, ciphervars>>

MasksPlace ==
    /\ pc = "masks_built"
    /\ \E r \in Idx, c \in Idx :
          /\ grid[r][c] = 0
          /\ \E d \in Digits :
                /\ d \in BitsOf[candidates_mask(row, col, box, r, c)]
                /\ Place(r, c, box_index(r, c), d)
                /\ stack' = <<[r |-> r, c |-> c, b |-> box_index(r, c),
                               ds |-> <<>>, d |-> d, total |-> 0]>>
    /\ pc' = "masks_placed"
    /\ UNCHANGED <<op, ret, limit, srng, seed, entry, result>>
    /\ UNCHANGED <<digvars, genvars, os_reads, ciphervars>>

MasksUndo ==
    /\ pc = "masks_placed"
    /\ Undo(Top.r, Top.c, Top.b, Top.d)
    /\ pc' = "masks_undone"
    /\ UNCHANGED <<op, stack, ret, limit, srng, seed, entry, result>>
    /\ UNCHANGED <<digvars, genvars, os_reads, ciphervars>>

\* ------------------------------------------------------------------------
\* solve_one (Zad_8.py:107-137)
\* ------------------------------------------------------------------------
\* row, col, box = build_masks(grid); then the first backtrack() call.
SolveStart ==
    /\ pc = "solve_start"
    /\ IF ShiftFails(grid)
       THEN /\ pc' = "raised"
            /\ UNCHANGED <<row, col, box, entry, stack>>
       ELSE /\ LET ms == build_masks(grid)
               IN /\ row' = ms.row
                  /\ col' = ms.col
                  /\ box' = ms.box
            /\ entry' = grid
            /\ stack' = <<>>
            /\ pc' = "solve_call"
    /\ UNCHANGED <<op, grid, ret, limit, srng, seed, result>>
    /\ UNCHANGED <<digvars, genvars, os_reads, ciphervars>>

\* backtrack() up to its loop: lines 112-120; the digits are shuffled by rng.
SolveCall ==
    /\ pc = "solve_call"
    /\ LET cell == find_mrv_cell(grid, row, col, box)
       IN IF cell = None
          THEN /\ ret' = TRUE
               /\ pc' = "solve_ret"
               /\ UNCHANGED <<stack, srng>>
          ELSE IF cell[3] = 0
               THEN /\ ret' = FALSE
                    /\ pc' = "solve_ret"
                    /\ UNCHANGED <<stack, srng>>
               ELSE LET sh == digits_from_mask_rng(cell[3], srng)
                    IN /\ stack' = Append(stack,
                             [r |-> cell[1], c |-> cell[2], b |-> box_index(cell[1], cell[2]),
                              ds |-> sh.list, d |-> 0, total |-> 0])
                       /\ srng' = sh.rng
                       /\ pc' = "solve_loop"
                       /\ UNCHANGED ret
    /\ UNCHANGED <<op, grid, row, col, box, limit, seed, entry, result>>
    /\ UNCHANGED <<digvars, genvars, os_reads, ciphervars>>

\* The loop takes its next digit and places it: lines 120-127, up to the call.
SolvePlace ==
    /\ pc = "solve_loop"
    /\ Top.ds # <<>>
    /\ LET d == Head(Top.ds)
       IN /\ Place(Top.r, Top.c, Top.b, d)
          /\ stack' = [stack EXCEPT ![Len(stack)].d = d, ![Len(stack)].ds = Tail(@)]
    /\ pc' = "solve_call"
    /\ UNCHANGED <<op, ret, limit, srng, seed, entry, result>>
    /\ UNCHANGED <<digvars, genvars, os_reads, ciphervars>>

\* The loop has no digit left: `return False`, line 135.
SolveExhaust ==
    /\ pc = "solve_loop"
    /\ Top.ds = <<>>
    /\ ret' = FALSE
    /\ stack' = Pop
    /\ pc' = "solve_ret"
    /\ UNCHANGED <<op, grid, row, col, box, limit, srng, seed, entry, result>>
    /\ UNCHANGED <<digvars, genvars, os_reads, ciphervars>>

\* Mutant: `return False` inside the loop, after the first failed digit.
SolveResume_GiveUp ==
    /\ pc = "solve_ret"
    /\ stack # <<>>
    /\ IF ret
       THEN UNCHANGED <<grid, row, col, box>>
       ELSE Undo(Top.r, Top.c, Top.b, Top.d)
    /\ stack' = Pop
    /\ pc' = "solve_ret"
    /\ UNCHANGED <<op, ret, limit, srng, seed, entry, result>>
    /\ UNCHANGED <<digvars, genvars, os_reads, ciphervars>>

\* Mutant: a digit that failed is left on the grid when the loop goes on.
SolveResume_NoUndo ==
    /\ pc = "solve_ret"
    /\ stack # <<>>
    /\ IF ret
       THEN /\ stack' = Pop
            /\ pc' = "solve_ret"
       ELSE /\ stack' = [stack EXCEPT ![Len(stack)].d = 0]
            /\ pc' = "solve_loop"
    /\ UNCHANGED <<grid, row, col, box>>
    /\ UNCHANGED <<op, ret, limit, srng, seed, entry, result>>
    /\ UNCHANGED <<digvars, genvars, os_reads, ciphervars>>

\* The recursive call returned into the loop: lines 127-133.  On success the
\* frame returns True at once, the digit left in place; otherwise it is undone.
SolveResume ==
    /\ pc = "solve_ret"
    /\ stack # <<>>
    /\ IF ret
       THEN /\ stack' = Pop
            /\ pc' = "solve_ret"
            /\ UNCHANGED <<grid, row, col, box>>
       ELSE /\ Undo(Top.r, Top.c, Top.b, Top.d)
            /\ stack' = [stack EXCEPT ![Len(stack)].d = 0]
            /\ pc' = "solve_loop"
    /\ UNCHANGED <<op, ret, limit, srng, seed, entry, result>>
    /\ UNCHANGED <<digvars, genvars, os_reads, ciphervars>>

\* The outermost backtrack() returned: `return backtrack()`, line 137.
SolveReturn ==
    /\ pc = "solve_ret"
    /\ stack = <<>>
    /\ op = "solve_one"
    /\ result' = ret
    /\ pc' = "done"
    /\ UNCHANGED <<op, grid, row, col, box, stack, ret, limit, srng, seed, entry>>
    /\ UNCHANGED <<digvars, genvars, os_reads, ciphervars>>

\* ------------------------------------------------------------------------
\* generate_full_grid (Zad_8.py:140-146)
\* ------------------------------------------------------------------------
\* rng = random.Random(seed); grid = empty; the call of solve_one(grid, rng).
FullStart ==
    /\ pc = "full_start"
    /\ \E g \in Seedings(seed) : srng' = g
    /\ os_reads' = IF seed = NoSeed THEN os_reads + 1 ELSE os_reads
    /\ UNCHANGED ciphervars
    /\ grid' = EmptyGrid
    /\ pc' = "solve_start"
    /\ UNCHANGED <<op, row, col, box, stack, ret, limit, seed, entry, result>>
    /\ UNCHANGED <<digvars, genvars>>

\* solve_one returned: raise RuntimeError on False, else return the grid.
FullReturn ==
    /\ pc = "solve_ret"
    /\ stack = <<>>
    /\ op = "generate_full_grid"
    /\ IF ~ret
       THEN /\ pc' = "raised"
            /\ UNCHANGED result
       ELSE /\ result' = grid
            /\ pc' = "done"
    /\ UNCHANGED <<op, grid, row, col, box, stack, ret, limit, srng, seed, entry>>
    /\ UNCHANGED <<digvars, genvars, os_reads, ciphervars>>

\* ------------------------------------------------------------------------
\* remove_cells_unique (Zad_8.py:149-178)
\* ------------------------------------------------------------------------
\* cells = [(r, c) for r in range(9) for c in range(9)]
AllCells == [k \in 1..81 |-> <<(k - 1) \div 9, (k - 1) % 9>>]

\* Mutant: the partner is never added.
paired_Single(sym, r, c) == << <<r, c>> >>

\* paired(r, c): the cell alone, or the cell and its 180-degree partner.
paired(sym, r, c) ==
    IF ~sym THEN << <<r, c>> >>
    ELSE IF <<r, c>> = <<8 - r, 8 - c>> THEN << <<r, c>> >>
         ELSE << <<r, c>>, <<8 - r, 8 - c>> >>

\* for rr, cc, _ in backup: puzzle[rr][cc] = 0
RECURSIVE ClearCells(_, _, _)
ClearCells(p, bk, i) ==
    IF i > Len(bk) THEN p
    ELSE ClearCells([p EXCEPT ![bk[i][1]][bk[i][2]] = 0], bk, i + 1)

\* for rr, cc, v in backup: puzzle[rr][cc] = v
RECURSIVE RestoreCells(_, _, _)
RestoreCells(p, bk, i) ==
    IF i > Len(bk) THEN p
    ELSE RestoreCells([p EXCEPT ![bk[i][1]][bk[i][2]] = bk[i][3]], bk, i + 1)

\* Mutant: the removal is undone only when no solution is left.
Rejected_OnlyZero(count) == count = 0

\* Mutant: every removal is undone.
Rejected_Always(count) == TRUE

\* if count_solutions(tmp, limit=2) != 1: the removal is not kept (line 174).
Rejected(count) == count # 1

\* puzzle = deepcopy(full); the cells are listed and shuffled: lines 154-156.
DigStart ==
    /\ pc = "dig_start"
    /\ puzzle' = full
    /\ LET sh == shuffle(AllCells, rng)
       IN /\ cells' = sh.list
          /\ rng' = sh.rng
    /\ ci' = 1
    /\ pc' = "dig_loop"
    /\ UNCHANGED <<full, symmetry, backup, before>>
    /\ UNCHANGED searchvars_but_pc
    /\ UNCHANGED <<genvars, os_reads, ciphervars>>

\* One visit of the loop, lines 164-174: skip when every target is empty, else
\* record the values, clear the targets and call count_solutions on a copy.
DigVisit ==
    /\ pc = "dig_loop"
    /\ ci <= Len(cells)
    /\ before' = puzzle
    /\ LET targets == paired(symmetry, cells[ci][1], cells[ci][2])
       IN IF \A i \in 1..Len(targets) : puzzle[targets[i][1]][targets[i][2]] = 0
          THEN /\ ci' = ci + 1
               /\ UNCHANGED <<pc, grid, limit, puzzle, backup>>
          ELSE LET bk == [i \in 1..Len(targets) |->
                            <<targets[i][1], targets[i][2], puzzle[targets[i][1]][targets[i][2]]>>]
                   cleared == ClearCells(puzzle, bk, 1)
               IN /\ backup' = bk
                  /\ puzzle' = cleared
                  /\ grid' = cleared
                  /\ limit' = 2
                  /\ pc' = "count_start"
                  /\ UNCHANGED ci
    /\ UNCHANGED <<full, symmetry, rng, cells>>
    /\ UNCHANGED <<op, row, col, box, stack, ret, srng, seed, entry, result>>
    /\ UNCHANGED <<genvars, os_reads, ciphervars>>

\* Mutant: only the first recorded cell gets its value back.
DigCheck_RestoreFirst ==
    /\ pc = "count_ret"
    /\ stack = <<>>
    /\ op \in {"remove_cells_unique", "generate_puzzle"}
    /\ puzzle' = IF Rejected(ret) THEN RestoreCells(puzzle, SubSeq(backup, 1, 1), 1) ELSE puzzle
    /\ ci' = ci + 1
    /\ pc' = "dig_loop"
    /\ UNCHANGED <<full, symmetry, rng, cells, backup, before>>
    /\ UNCHANGED searchvars_but_pc
    /\ UNCHANGED <<genvars, os_reads, ciphervars>>

\* count_solutions returned to line 174: restore the targets unless it is 1.
DigCheck ==
    /\ pc = "count_ret"
    /\ stack = <<>>
    /\ op \in {"remove_cells_unique", "generate_puzzle"}
    /\ puzzle' = IF Rejected(ret) THEN RestoreCells(puzzle, backup, 1) ELSE puzzle
    /\ ci' = ci + 1
    /\ pc' = "dig_loop"
    /\ UNCHANGED <<full, symmetry, rng, cells, backup, before>>
    /\ UNCHANGED searchvars_but_pc
    /\ UNCHANGED <<genvars, os_reads, ciphervars>>

\* The loop is over: `return puzzle`, line 178.
DigReturn ==
    /\ pc = "dig_loop"
    /\ ci > Len(cells)
    /\ op = "remove_cells_unique"
    /\ result' = puzzle
    /\ pc' = "done"
    /\ UNCHANGED <<digvars, genvars, os_reads, ciphervars>>
    /\ UNCHANGED <<op, grid, row, col, box, stack, ret, limit, srng, seed, entry>>

\* ------------------------------------------------------------------------
\* generate_puzzle (Zad_8.py:181-200)
\* ------------------------------------------------------------------------
\* rng = random.Random(seed); no best attempt yet: lines 183-187.
GenStart ==
    /\ pc = "gen_start"
    /\ \E g \in Seedings(gseed) : rng' = g
    /\ os_reads' = IF gseed = NoSeed THEN os_reads + 1 ELSE os_reads
    /\ UNCHANGED ciphervars
    /\ best_puzzle' = None
    /\ best_solution' = None
    /\ best_zeros' = -1
    /\ tries' = 0
    /\ dug' = <<>>
    /\ pc' = "gen_loop"
    /\ UNCHANGED <<full, symmetry, puzzle, cells, ci, backup, before>>
    /\ UNCHANGED <<gseed, attempts, solution, call, first>>
    /\ UNCHANGED searchvars_but_pc

\* Mutant: generate_full_grid() is called without the seed.
GenAttempt_Unseeded ==
    /\ pc = "gen_loop"
    /\ tries < attempts
    /\ seed' = NoSeed
    /\ pc' = "full_start"
    /\ UNCHANGED <<full, symmetry, rng, puzzle, cells, ci, backup, before>>
    /\ UNCHANGED <<genvars, os_reads, ciphervars>>
    /\ UNCHANGED <<op, grid, row, col, box, stack, ret, limit, srng, entry, result>>

\* The next attempt calls generate_full_grid(seed=rng.randrange(10**9)): line 190.
GenAttempt ==
    /\ pc = "gen_loop"
    /\ tries < attempts
    /\ LET dr == randrange(rng)
       IN /\ seed' = dr.value
          /\ rng' = dr.rng
    /\ pc' = "full_start"
    /\ UNCHANGED <<full, symmetry, puzzle, cells, ci, backup, before>>
    /\ UNCHANGED <<genvars, os_reads, ciphervars>>
    /\ UNCHANGED <<op, grid, row, col, box, stack, ret, limit, srng, entry, result>>

\* generate_full_grid's solve_one returned (lines 144-146); on success its grid
\* is the attempt's solution and remove_cells_unique is called on it: line 191.
GenDig ==
    /\ pc = "solve_ret"
    /\ stack = <<>>
    /\ op = "generate_puzzle"
    /\ IF ~ret
       THEN /\ pc' = "raised"
            /\ UNCHANGED <<solution, full>>
       ELSE /\ solution' = grid
            /\ full' = grid
            /\ pc' = "dig_start"
    /\ UNCHANGED <<symmetry, rng, puzzle, cells, ci, backup, before>>
    /\ UNCHANGED <<gseed, attempts, tries, best_puzzle, best_solution, best_zeros, call, first, dug>>
    /\ UNCHANGED <<searchvars_but_pc, os_reads, ciphervars>>

\* Mutant: `zeros >= best_zeros`, a later attempt replaces an equal earlier one.
GenKeep_KeepTies ==
    /\ pc = "dig_loop"
    /\ ci > Len(cells)
    /\ op = "generate_puzzle"
    /\ LET zeros == Zeros(puzzle)
       IN IF zeros >= best_zeros
          THEN /\ best_zeros' = zeros
               /\ best_puzzle' = puzzle
               /\ best_solution' = solution
          ELSE UNCHANGED <<best_zeros, best_puzzle, best_solution>>
    /\ tries' = tries + 1
    /\ dug' = Append(dug, puzzle)
    /\ pc' = "gen_loop"
    /\ UNCHANGED <<gseed, attempts, solution, call, first>>
    /\ UNCHANGED <<digvars, searchvars_but_pc, os_reads, ciphervars>>

\* Mutant: the puzzle is stored as the best solution too.
GenKeep_PuzzleTwice ==
    /\ pc = "dig_loop"
    /\ ci > Len(cells)
    /\ op = "generate_puzzle"
    /\ LET zeros == Zeros(puzzle)
       IN IF zeros > best_zeros
          THEN /\ best_zeros' = zeros
               /\ best_puzzle' = puzzle
               /\ best_solution' = puzzle
          ELSE UNCHANGED <<best_zeros, best_puzzle, best_solution>>
    /\ tries' = tries + 1
    /\ dug' = Append(dug, puzzle)
    /\ pc' = "gen_loop"
    /\ UNCHANGED <<gseed, attempts, solution, call, first>>
    /\ UNCHANGED <<digvars, searchvars_but_pc, os_reads, ciphervars>>

\* remove_cells_unique returned (line 178): count the blanks and keep the
\* attempt if it has more than the best so far: lines 193-197.
GenKeep ==
    /\ pc = "dig_loop"
    /\ ci > Len(cells)
    /\ op = "generate_puzzle"
    /\ LET zeros == Zeros(puzzle)
       IN IF zeros > best_zeros
          THEN /\ best_zeros' = zeros
               /\ best_puzzle' = puzzle
               /\ best_solution' = solution
          ELSE UNCHANGED <<best_zeros, best_puzzle, best_solution>>
    /\ tries' = tries + 1
    /\ dug' = Append(dug, puzzle)
    /\ pc' = "gen_loop"
    /\ UNCHANGED <<gseed, attempts, solution, call, first>>
    /\ UNCHANGED <<digvars, searchvars_but_pc, os_reads, ciphervars>>

\* The loop is over: the assertion and the return, lines 199-200.
GenReturn ==
    /\ pc = "gen_loop"
    /\ tries >= attempts
    /\ IF best_puzzle = None \/ best_solution = None
       THEN /\ pc' = "assert_failed"
            /\ UNCHANGED result
       ELSE /\ result' = <<best_puzzle, best_solution>>
            /\ pc' = "done"
    /\ UNCHANGED <<op, grid, row, col, box, stack, ret, limit, srng, seed, entry>>
    /\ UNCHANGED <<digvars, genvars, os_reads, ciphervars>>

\* The caller calls generate_puzzle a second time with the same arguments.
CallAgain ==
    /\ pc = "done"
    /\ op = "generate_puzzle"
    /\ call = 1
    /\ first' = result
    /\ call' = 2
    /\ pc' = "gen_start"
    /\ UNCHANGED <<gseed, attempts, tries, solution, best_puzzle, best_solution, best_zeros, dug>>
    /\ UNCHANGED <<digvars, searchvars_but_pc, os_reads, ciphervars>>

\* ------------------------------------------------------------------------
\* Gronsfeld cipher (Zad_5/Zad_5.py).  A string is a sequence of code points.
\* ------------------------------------------------------------------------
IsUpper(ch) == 65 <= ch /\ ch <= 90      \* "A" <= ch <= "Z"
IsLower(ch) == 97 <= ch /\ ch <= 122     \* "a" <= ch <= "z"

\* The characters str.strip() removes and str.isdigit() accepts, among the
\* characters of the keys below.
IsSpace(ch) == ch \in {9, 10, 13, 32}
IsDigit(ch) == 48 <= ch /\ ch <= 57

RECURSIVE LStrip(_)
LStrip(x) == IF x # <<>> /\ IsSpace(Head(x)) THEN LStrip(Tail(x)) ELSE x

RECURSIVE RStrip(_)
RStrip(x) == IF x # <<>> /\ IsSpace(x[Len(x)]) THEN RStrip(SubSeq(x, 1, Len(x) - 1)) ELSE x

strip(x) == RStrip(LStrip(x))

\* parse_key_digits raises ValueError on these keys.
KeyRejected(k) == strip(k) = <<>> \/ \E i \in 1..Len(strip(k)) : ~IsDigit(strip(k)[i])

\* parse_key_digits: [int(ch) for ch in key] after the strip.
parse_key_digits(k) == [i \in 1..Len(strip(k)) |-> strip(k)[i] - 48]

\* Mutant: the position is not reduced modulo 26.
shift_letter_NoWrap(letter, shift, decrypt) ==
    IF IsUpper(letter)
    THEN 65 + (IF decrypt THEN (letter - 65) - shift ELSE (letter - 65) + shift)
    ELSE IF IsLower(letter)
         THEN 97 + (IF decrypt THEN (letter - 97) - shift ELSE (letter - 97) + shift)
         ELSE letter

shift_letter(letter, shift, decrypt) ==
    IF IsUpper(letter)
    THEN 65 + (IF decrypt THEN ((letter - 65) - shift) % 26 ELSE ((letter - 65) + shift) % 26)
    ELSE IF IsLower(letter)
         THEN 97 + (IF decrypt THEN ((letter - 97) - shift) % 26 ELSE ((letter - 97) + shift) % 26)
         ELSE letter

\* The loop of gronsfeld_cipher from character i on, key_index digits of the
\* key used so far (key_digits is 1-based here).
RECURSIVE CipherFrom(_, _, _, _, _)
CipherFrom(text, key_digits, i, key_index, decrypt) ==
    IF i > Len(text) THEN <<>>
    ELSE LET ch == text[i]
         IN IF IsUpper(ch) \/ IsLower(ch)
            THEN LET shift == key_digits[(key_index % Len(key_digits)) + 1]
                 IN <<shift_letter(ch, shift, decrypt)>>
                      \o CipherFrom(text, key_digits, i + 1, key_index + 1, decrypt)
            ELSE <<ch>> \o CipherFrom(text, key_digits, i + 1, key_index, decrypt)

gronsfeld_cipher(text, k, decrypt) == CipherFrom(text, parse_key_digits(k), 1, 0, decrypt)

\* cipher = encrypt_text(plain, key)
Encrypt ==
    /\ pc = "encrypt"
    /\ IF KeyRejected(key)
       THEN /\ pc' = "raised"
            /\ UNCHANGED cipher
       ELSE /\ cipher' = gronsfeld_cipher(plain, key, FALSE)
            /\ pc' = "decrypt"
    /\ UNCHANGED <<key, plain, back>>
    /\ UNCHANGED <<searchvars_but_pc, digvars, genvars, os_reads>>

\* back = decrypt_text(cipher, key)
Decrypt ==
    /\ pc = "decrypt"
    /\ IF KeyRejected(key)
       THEN /\ pc' = "raised"
            /\ UNCHANGED back
       ELSE /\ back' = gronsfeld_cipher(cipher, key, TRUE)
            /\ pc' = "done"
    /\ UNCHANGED <<key, plain, cipher>>
    /\ UNCHANGED <<searchvars_but_pc, digvars, genvars, os_reads>>

\* ------------------------------------------------------------------------
\* Input grids
\* ------------------------------------------------------------------------
MaxCap == 3
PoolSize == 8

FromRows(t) == [r \in Idx |-> [c \in Idx |-> t[r + 1][c + 1]]]

\* Two complete valid grids: one the generator produces, one the shifted pattern.
Solved0 == FromRows(<<
    <<8, 7, 2, 5, 9, 3, 1, 4, 6>>,
    <<3, 4, 6, 8, 2, 1, 7, 5, 9>>,
    <<1, 9, 5, 4, 7, 6, 2, 8, 3>>,
    <<2, 8, 9, 1, 6, 5, 4, 3, 7>>,
    <<6, 1, 3, 7, 4, 2, 5, 9, 8>>,
    <<4, 5, 7, 3, 8, 9, 6, 1, 2>>,
    <<5, 2, 1, 9, 3, 7, 8, 6, 4>>,
    <<7, 3, 8, 6, 5, 4, 9, 2, 1>>,
    <<9, 6, 4, 2, 1, 8, 3, 7, 5>> >>)

Pattern == [r \in Idx |-> [c \in Idx |-> ((3 * (r % 3) + (r \div 3) + c) % 9) + 1]]

\* Cells to blank, in the order the bound PoolSize takes them.
BlankPool == << <<0, 5>>, <<0, 6>>, <<0, 8>>, <<1, 0>>, <<1, 5>>, <<2, 0>>,
                <<2, 5>>, <<2, 8>>, <<0, 7>>, <<1, 4>>, <<1, 7>>, <<0, 3>> >>

PoolCells == {BlankPool[i] : i \in 1..PoolSize}

Blank(g, S) == [r \in Idx |-> [c \in Idx |-> IF <<r, c>> \in S THEN 0 ELSE g[r][c]]]

\* Partial grids of Solved0, each with at least one completion.
PartialGrids == {Blank(Solved0, S) : S \in SUBSET PoolCells}

\* Legal grids with a digit that is not Solved0's put into a blanked cell.
PokedGrids ==
    {g \in {[Blank(Solved0, PoolCells) EXCEPT ![p[1]][p[2]] = d] :
               p \in PoolCells, d \in Digits} : Legal(g)}

\* A legal grid whose first empty cell has one candidate and whose last has none.
ShortCutGrid == [Solved0 EXCEPT ![0][0] = 0, ![6][0] = 0, ![8][0] = 5, ![8][8] = 0]

CountInputs == {EmptyGrid, Pattern, ShortCutGrid} \cup PartialGrids \cup PokedGrids

\* What no call has touched yet.
SearchIdle ==
    /\ row = ZeroMasks
    /\ col = ZeroMasks
    /\ box = ZeroMasks
    /\ stack = <<>>
    /\ entry = grid
    /\ result = None

DigIdle ==
    /\ puzzle = EmptyGrid
    /\ cells = <<>>
    /\ ci = 0
    /\ backup = <<>>
    /\ before = EmptyGrid

GenIdle ==
    /\ tries = 0
    /\ solution = None
    /\ best_puzzle = None
    /\ best_solution = None
    /\ best_zeros = -1
    /\ call = 1
    /\ first = None
    /\ dug = <<>>
    /\ os_reads = 0

NoCipher == key = <<>> /\ plain = <<>> /\ cipher = <<>> /\ back = <<>>

NoDig == full = EmptyGrid /\ symmetry = FALSE /\ rng = 0 /\ DigIdle

NoGen == gseed = 0 /\ attempts = 0 /\ GenIdle

\* count_solutions(grid, limit) on the input grids, limit in 1..MaxCap.
InitCount ==
    /\ op = "count_solutions"
    /\ pc = "count_start"
    /\ grid \in CountInputs
    /\ limit \in 1..MaxCap
    /\ ret = 0
    /\ srng = 0
    /\ seed = 0
    /\ SearchIdle /\ NoDig /\ NoGen /\ NoCipher

NextCount ==
    \/ CountStart
    \/ CountCall
    \/ CountPlace
    \/ CountExhaust
    \/ CountResume
    \/ CountReturn

SpecCount == InitCount /\ [][NextCount]_vars

\* solve_one(grid, rng) on the input grids, rng a generator of seed 0..MaxSeed.
MaxSeed == 7

Seeds == 0..MaxSeed

InitSolve ==
    /\ op = "solve_one"
    /\ pc = "solve_start"
    /\ grid \in CountInputs
    /\ srng \in {RandomOf(sd) : sd \in Seeds}
    /\ limit = 0
    /\ ret = FALSE
    /\ seed = 0
    /\ SearchIdle /\ NoDig /\ NoGen /\ NoCipher

NextSolve ==
    \/ SolveStart
    \/ SolveCall
    \/ SolvePlace
    \/ SolveExhaust
    \/ SolveResume
    \/ SolveReturn

SpecSolve == InitSolve /\ [][NextSolve]_vars

\* Either search, on the input grids.
InitSearch == InitCount \/ InitSolve

NextSearch ==
    \/ CountStart
    \/ CountCall
    \/ CountPlace
    \/ CountExhaust
    \/ CountResume
    \/ CountReturn
    \/ SolveStart
    \/ SolveCall
    \/ SolvePlace
    \/ SolveExhaust
    \/ SolveResume
    \/ SolveReturn

SpecSearch == InitSearch /\ [][NextSearch]_vars

\* generate_full_grid(seed), seed in 0..MaxSeed or None.
InitFull ==
    /\ op = "generate_full_grid"
    /\ pc = "full_start"
    /\ seed \in Seeds \cup {NoSeed}
    /\ grid = EmptyGrid
    /\ srng = 0
    /\ limit = 0
    /\ ret = FALSE
    /\ SearchIdle /\ NoDig /\ NoGen /\ NoCipher

NextFull ==
    \/ FullStart
    \/ SolveStart
    \/ SolveCall
    \/ SolvePlace
    \/ SolveExhaust
    \/ SolveResume
    \/ FullReturn

SpecFull == InitFull /\ [][NextFull]_vars

\* remove_cells_unique(full, rng, symmetry) on complete valid grids.
MaxDigSeed == 0

FullGrids == {Solved0, Pattern}

\* Solved0 is dug in the orders of the seeds 0..MaxDigSeed, Pattern in that of seed 0.
DigSeeds(g) == IF g = Solved0 THEN 0..MaxDigSeed ELSE {0}

InitDig ==
    /\ op = "remove_cells_unique"
    /\ pc = "dig_start"
    /\ full \in FullGrids
    /\ symmetry \in BOOLEAN
    /\ rng \in {RandomOf(sd) : sd \in DigSeeds(full)}
    /\ grid = EmptyGrid
    /\ limit = 0
    /\ ret = 0
    /\ srng = 0
    /\ seed = 0
    /\ SearchIdle /\ DigIdle /\ NoGen /\ NoCipher

NextDig ==
    \/ DigStart
    \/ DigVisit
    \/ CountStart
    \/ CountCall
    \/ CountPlace
    \/ CountExhaust
    \/ CountResume
    \/ DigCheck
    \/ DigReturn

SpecDig == InitDig /\ [][NextDig]_vars

\* generate_puzzle(attempts, symmetry, seed), called twice by its caller.
GenArgs ==
    {[attempts |-> 2, symmetry |-> TRUE, seed |-> 0],
     [attempts |-> 3, symmetry |-> FALSE, seed |-> 6],
     [attempts |-> 1, symmetry |-> TRUE, seed |-> NoSeed],
     [attempts |-> 0, symmetry |-> TRUE, seed |-> 0]}

InitGen ==
    /\ op = "generate_puzzle"
    /\ pc = "gen_start"
    /\ \E a \in GenArgs :
          /\ attempts = a.attempts
          /\ symmetry = a.symmetry
          /\ gseed = a.seed
    /\ full = EmptyGrid
    /\ rng = 0
    /\ grid = EmptyGrid
    /\ limit = 0
    /\ ret = 0
    /\ srng = 0
    /\ seed = 0
    /\ SearchIdle /\ DigIdle /\ GenIdle /\ NoCipher

NextGen ==
    \/ GenStart
    \/ GenAttempt
    \/ FullStart
    \/ SolveStart
    \/ SolveCall
    \/ SolvePlace
    \/ SolveExhaust
    \/ SolveResume
    \/ GenDig
    \/ DigStart
    \/ DigVisit
    \/ CountStart
    \/ CountCall
    \/ CountPlace
    \/ CountExhaust
    \/ CountResume
    \/ DigCheck
    \/ GenKeep
    \/ GenReturn
    \/ CallAgain

SpecGen == InitGen /\ [][NextGen]_vars

\* A placement and its undo on the input grids.
InitMasks ==
    /\ op = "backtrack"
    /\ pc = "masks_start"
    /\ grid \in CountInputs
    /\ limit = 0
    /\ ret = 0
    /\ srng = 0
    /\ seed = 0
    /\ SearchIdle /\ NoDig /\ NoGen /\ NoCipher

NextMasks ==
    \/ MasksBuild
    \/ MasksPlace
    \/ MasksUndo

SpecMasks == InitMasks /\ [][NextMasks]_vars

\* encrypt_text then decrypt_text, as self_test does, on the texts of up to
\* MaxText characters and the keys of up to MaxKey characters over these
\* alphabets, and on self_test's first example.
MaxText == 3
MaxKey == 2

TextChars == {65, 90, 97, 122, 32, 91}    \* A Z a z space [

KeyChars == {48, 51, 57, 32, 120}         \* 0 3 9 space x

SeqsUpTo(S, n) == UNION {[1..m -> S] : m \in 0..n}

Key1 == <<51, 49, 50, 48, 54>>            \* "31206"

Plain1 == <<80, 82, 79, 71, 82, 65, 77, 79, 87, 65, 78, 73, 69>>     \* "PROGRAMOWANIE"

Cipher1 == <<83, 83, 81, 71, 88, 68, 78, 81, 87, 71, 81, 74, 71>>    \* "SSQGXDNQWGQJG"

InitCipher ==
    /\ op = "self_test"
    /\ pc = "encrypt"
    /\ \/ key \in SeqsUpTo(KeyChars, MaxKey) /\ plain \in SeqsUpTo(TextChars, MaxText)
       \/ key = Key1 /\ plain = Plain1
    /\ cipher = <<>>
    /\ back = <<>>
    /\ grid = EmptyGrid
    /\ limit = 0
    /\ ret = 0
    /\ srng = 0
    /\ seed = 0
    /\ SearchIdle /\ NoDig /\ NoGen

NextCipher ==
    \/ Encrypt
    \/ Decrypt

SpecCipher == InitCipher /\ [][NextCipher]_vars

\* count_solutions and solve_one on grids that are not legal: a given cell of
\* an input grid is overwritten with the digit of a neighbour in its row and
\* box (a duplicate), with MaxValue (above 9) or with -1.
BadCells == {[at |-> <<0, 0>>, twin |-> <<0, 1>>], [at |-> <<8, 8>>, twin |-> <<8, 7>>]}

Overwritten(g, b) ==
    {[g EXCEPT ![b.at[1]][b.at[2]] = v] : v \in {g[b.twin[1]][b.twin[2]], MaxValue, -1} \ {0}}

MalformedGrids == UNION {Overwritten(g, b) : g \in CountInputs, b \in BadCells}

InitMalformed ==
    /\ grid \in MalformedGrids
    /\ \/ /\ op = "count_solutions"
          /\ pc = "count_start"
          /\ limit \in 1..MaxCap
          /\ ret = 0
          /\ srng = 0
       \/ /\ op = "solve_one"
          /\ pc = "solve_start"
          /\ limit = 0
          /\ ret = FALSE
          /\ srng \in {RandomOf(sd) : sd \in Seeds}
    /\ seed = 0
    /\ SearchIdle /\ NoDig /\ NoGen /\ NoCipher

NextMalformed ==
    \/ CountStart
    \/ CountCall
    \/ CountPlace
    \/ CountExhaust
    \/ CountResume
    \/ CountReturn
    \/ SolveStart
    \/ SolveCall
    \/ SolvePlace
    \/ SolveExhaust
    \/ SolveResume
    \/ SolveReturn

SpecMalformed == InitMalformed /\ [][NextMalformed]_vars

\* ------------------------------------------------------------------------
\* What the claims speak of: valid completions of a grid
\* ------------------------------------------------------------------------
\* The digits no cell of (r, c)'s row, column or box holds.
Free(g, r, c) ==
    Digits \ ({g[r][x] : x \in Idx} \cup {g[x][c] : x \in Idx}
              \cup {g[(r \div 3) * 3 + i][(c \div 3) * 3 + j] : i \in 0..2, j \in 0..2})

\* An empty cell of g with the fewest free digits (E: the empty cells of g).
Tightest(g, E) ==
    LET n == [p \in E |-> Cardinality(Free(g, p[1], p[2]))]
        m == CHOOSE k \in 0..9 : (\E p \in E : n[p] = k) /\ (\A p \in E : n[p] >= k)
    IN CHOOSE p \in E : n[p] = m

\* The function f on 0..8, built value by value.
Listed(f) ==
    (0 :> f[0]) @@ (1 :> f[1]) @@ (2 :> f[2]) @@ (3 :> f[3]) @@ (4 :> f[4])
        @@ (5 :> f[5]) @@ (6 :> f[6]) @@ (7 :> f[7]) @@ (8 :> f[8])

\* g with every empty cell that has a single free digit filled with it, all
\* such cells at once.  A valid completion of g has these digits there.
FillSingles(g) ==
    Listed([r \in Idx |-> Listed([c \in Idx |->
        IF g[r][c] = 0 /\ Cardinality(Free(g, r, c)) = 1
        THEN CHOOSE d \in Free(g, r, c) : TRUE
        ELSE g[r][c]])])

\* FillSingles repeated until nothing changes, or None when two cells filled
\* together clash.  The valid completions of the legal grid g are those of
\* Settle(g); it has none when Settle(g) is None.
RECURSIVE Settle(_)
Settle(g) ==
    LET h == FillSingles(g)
    IN IF h = g THEN g
       ELSE IF Legal(h) THEN Settle(h) ELSE None

\* CompletionsUpTo(g, k): a set of complete valid grids that agree with the
\* legal grid g on its non-empty cells; all of them when there are fewer than
\* k, and k of them otherwise.  FillUpTo tries the digits D at cell p.
RECURSIVE CompletionsUpTo(_, _)
RECURSIVE FillUpTo(_, _, _, _, _)
FillUpTo(g, p, D, k, acc) ==
    IF D = {} \/ Cardinality(acc) >= k THEN acc
    ELSE LET d == CHOOSE x \in D : TRUE
         IN FillUpTo(g, p, D \ {d}, k,
                     acc \cup CompletionsUpTo([g EXCEPT ![p[1]][p[2]] = d], k - Cardinality(acc)))

CompletionsUpTo(g, k) ==
    LET h == Settle(g)
        E == {p \in Cells : h[p[1]][p[2]] = 0}
    IN IF h = None THEN {}
       ELSE IF E = {} THEN {h}
            ELSE LET p == Tightest(h, E)
                 IN FillUpTo(h, p, Free(h, p[1], p[2]), k, {})

\* min(k, the number of valid completions of g)
NumCompletions(g, k) == Cardinality(CompletionsUpTo(g, k))

\* g agrees with h wherever g is not empty.
Agrees(g, h) == \A r \in Idx, c \in Idx : g[r][c] # 0 => g[r][c] = h[r][c]

\* ------------------------------------------------------------------------
\* Claims
\* ------------------------------------------------------------------------

\* C1: whenever remove_cells_unique is at the head of its loop (before the
\* first visit and after every visit) or has returned, the puzzle has exactly
\* one valid completion.
C1_DigKeepsUnique ==
    (op = "remove_cells_unique" /\ pc \in {"dig_loop", "done"})
        => NumCompletions(puzzle, 2) = 1

\* A dig that returned a puzzle with more than 40 removed cells.
C1_Witness ==
    op = "remove_cells_unique" /\ pc = "done" /\ result = puzzle /\ Zeros(puzzle) > 40

C3_FullGridValid ==
    op = "generate_full_grid" =>
        /\ pc # "raised"
        /\ pc = "done" => (Complete(result) /\ Legal(result))

\* generate_full_grid returned a grid.
C3_Witness ==
    op = "generate_full_grid" /\ pc = "done" /\ result = grid /\ Complete(result)

\* C4: when solve_one returns True, the grid is complete, has no digit twice in
\* a unit, and agrees with the input on every cell that was not empty.
C4_SolvedInPlace ==
    (op = "solve_one" /\ pc = "done" /\ result = TRUE) =>
        (Complete(grid) /\ Legal(grid) /\ Agrees(entry, grid))

\* solve_one returned True on a grid that had givens and empty cells.
C4_Witness ==
    /\ op = "solve_one" /\ pc = "done" /\ result = TRUE
    /\ Zeros(entry) \in 1..80

\* C5: on a legal grid that has a valid completion, solve_one returns True.
C5_FalseOnlyIfUnsolvable ==
    (op = "solve_one" /\ pc = "done" /\ NumCompletions(entry, 1) = 1) => result = TRUE

\* solve_one returned True on a grid with more than one valid completion.
C5_Witness ==
    /\ op = "solve_one" /\ pc = "done" /\ result = TRUE
    /\ NumCompletions(entry, 2) = 2

\* C6: with limit 2, count_solutions returns 0 iff the grid has no valid
\* completion, 1 iff it has exactly one, and another value iff it has two or more.
C6_CountDecidesUniqueness ==
    (op = "count_solutions" /\ pc = "done" /\ limit = 2) =>
        LET n == NumCompletions(entry, 2)
        IN /\ result = 0 <=> n = 0
           /\ result = 1 <=> n = 1
           /\ result \notin {0, 1} <=> n = 2

\* count_solutions(grid, 2) returned 3.
C6_Witness ==
    op = "count_solutions" /\ pc = "done" /\ limit = 2 /\ result = 3

C8_CompleteGridCountsOne ==
    (op = "count_solutions" /\ pc = "done" /\ Complete(entry) /\ Legal(entry))
        => result = 1

\* count_solutions returned on a complete grid with a limit above 1.
C8_Witness ==
    op = "count_solutions" /\ pc = "done" /\ Complete(entry) /\ limit > 1

\* C9: with symmetry on, at the head of the loop and at the return a cell of
\* the puzzle is empty iff its 180-degree partner is.
C9_SymmetricBlanks ==
    (op = "remove_cells_unique" /\ symmetry /\ pc \in {"dig_loop", "done"}) =>
        \A r \in Idx, c \in Idx : puzzle[r][c] = 0 <=> puzzle[8 - r][8 - c] = 0

\* A symmetric dig returned with pairs removed.
C9_Witness ==
    /\ op = "remove_cells_unique" /\ symmetry /\ pc = "done"
    /\ \E r \in Idx, c \in Idx :
          <<r, c>> # <<8 - r, 8 - c>> /\ puzzle[r][c] = 0 /\ puzzle[8 - r][8 - c] = 0

\* C10: with a seed that is not None, no generator is seeded from the operating
\* system, and the second call of generate_puzzle with the same arguments
\* returns the puzzle and the solution the first call returned.
C10_Deterministic ==
    (op = "generate_puzzle" /\ gseed # NoSeed) =>
        /\ os_reads = 0
        /\ (pc = "done" /\ call = 2) => result = first

\* The second of two calls with seed 0 and two attempts returned.
C10_Witness ==
    /\ op = "generate_puzzle" /\ gseed # NoSeed /\ attempts = 2
    /\ pc = "done" /\ call = 2 /\ result = first

\* C11: the pair generate_puzzle returns (attempts >= 1) is a puzzle and a
\* complete valid grid that agrees with the puzzle on every non-empty cell, and
\* the puzzle has exactly one valid completion (so that grid is the only one).
C11_PairFromOneAttempt ==
    (op = "generate_puzzle" /\ pc = "done" /\ attempts >= 1) =>
        /\ Complete(result[2]) /\ Legal(result[2])
        /\ Agrees(result[1], result[2])
        /\ NumCompletions(result[1], 2) = 1

\* generate_puzzle returned after two attempts, with blanks in the puzzle.
C11_Witness ==
    /\ op = "generate_puzzle" /\ pc = "done" /\ attempts = 2 /\ tries = 2
    /\ Zeros(result[1]) > 0 /\ result[2] = best_solution

\* C12: generate_puzzle (attempts >= 1) runs `attempts` attempts and returns
\* the puzzle of the earliest attempt whose number of empty cells is the
\* largest any attempt reached.
C12_KeepsMostBlanks ==
    (op = "generate_puzzle" /\ pc = "done" /\ attempts >= 1) =>
        /\ Len(dug) = attempts
        /\ \E i \in 1..Len(dug) :
              /\ result[1] = dug[i]
              /\ \A j \in 1..Len(dug) : Zeros(dug[j]) <= Zeros(dug[i])
              /\ \A j \in 1..(i - 1) : Zeros(dug[j]) < Zeros(dug[i])

\* Three attempts: the second beat the first, the third only equalled the
\* second with another puzzle, and the second was returned.
C12_Witness ==
    /\ op = "generate_puzzle" /\ pc = "done" /\ Len(dug) = 3
    /\ Zeros(dug[1]) < Zeros(dug[2]) /\ Zeros(dug[2]) = Zeros(dug[3])
    /\ dug[2] # dug[3] /\ result[1] = dug[2]

\* C13: count_solutions and solve_one reject a malformed grid before the
\* search begins: on such a grid no backtrack() call is made, no digit is
\* placed and no count or success value is returned.
C13_MalformedRejected ==
    (op \in {"count_solutions", "solve_one"} /\ ~Legal(entry))
        => pc \in {"count_start", "solve_start", "raised"}

\* C14: on a legal grid, placing a candidate digit at an empty cell (its bit
\* ORed into the row, column and box mask) and undoing it at once leaves the
\* 27 masks as build_masks made them, and the grid as it was.
C14_MaskRoundTrip ==
    (op = "backtrack" /\ pc = "masks_undone") =>
        /\ <<row, col, box>> = <<build_masks(entry).row, build_masks(entry).col, build_masks(entry).box>>
        /\ grid = entry

\* A digit was placed and undone at a cell of a grid with givens.
C14_Witness ==
    /\ op = "backtrack" /\ pc = "masks_undone"
    /\ Zeros(entry) \in 2..80 /\ Top.d \in Digits /\ row[Top.r] # 0

IsLetter(ch) == IsUpper(ch) \/ IsLower(ch)

\* C15: with a key that is a non-empty string of digits (after the strip),
\* decrypt_text(encrypt_text(text, key), key) = text; the cipher text has a
\* letter exactly where the text has one, so both directions use the same key
\* digit at each letter, and every other character is passed through unchanged.
C15_RoundTrip ==
    (op = "self_test" /\ pc = "done") =>
        /\ back = plain
        /\ Len(cipher) = Len(plain)
        /\ \A i \in 1..Len(plain) :
              /\ IsLetter(cipher[i]) <=> IsLetter(plain[i])
              /\ ~IsLetter(plain[i]) => cipher[i] = plain[i]

\* "a Z" under the key "39" became "d I" and came back: the second letter
\* took the second digit and wrapped around the alphabet.
C15_Witness ==
    /\ op = "self_test" /\ pc = "done"
    /\ key = <<51, 57>> /\ plain = <<97, 32, 90>> /\ cipher = <<100, 32, 73>> /\ back = plain

\* C16: at every entry to a backtrack() call and at every return from one, in
\* count_solutions and in solve_one, the masks are build_masks(grid) and the
\* grid has no digit twice in a row, column or box.
C16_MasksMatchGrid ==
    pc \in {"count_call", "count_ret", "solve_call", "solve_ret"} =>
        /\ LET ms == build_masks(grid)
           IN row = ms.row /\ col = ms.col /\ box = ms.box
        /\ Legal(grid)

\* A backtrack() call three levels down returned, digits of its callers in place.
C16_Witness ==
    /\ pc \in {"count_ret", "solve_ret"} /\ Len(stack) >= 3
    /\ Zeros(grid) = Zeros(entry) - Len(stack)

\* The digit of the innermost frame is gone from its cell and from the three
\* masks in the next state; or cell and masks are as they were.
TopUnplaced ==
    /\ grid'[Top.r][Top.c] = 0
    /\ Top.d \notin BitsOf[row'[Top.r]]
    /\ Top.d \notin BitsOf[col'[Top.c]]
    /\ Top.d \notin BitsOf[box'[Top.b]]

TopKept ==
    /\ grid'[Top.r][Top.c] = Top.d
    /\ UNCHANGED <<grid, row, col, box>>

\* C17 as stated: in both searches, when a recursive call returns into the
\* frame that placed a digit, that digit is unplaced, whatever the call returned.
C17_AlwaysUnplaced ==
    [][(pc \in {"count_ret", "solve_ret"} /\ stack # <<>>) => TopUnplaced]_vars

\* C17 amended: in count_solutions the digit is unplaced whatever the call
\* returned, also when the limit is reached; in solve_one it is unplaced when
\* the call returned False and left in place when the call returned True.
C17_UnplacedUnlessSolved ==
    [][/\ (pc = "count_ret" /\ stack # <<>>) => TopUnplaced
       /\ (pc = "solve_ret" /\ stack # <<>>) => (IF ret THEN TopKept ELSE TopUnplaced)]_vars

\* count_solutions stopped at its limit and returned with the grid as it was given.
C17_Witness ==
    /\ op = "count_solutions" /\ pc = "done" /\ limit >= 2 /\ result >= limit
    /\ Zeros(entry) > 0 /\ grid = entry

\* The empty cells of g, those scanned before p (row by row), and the number
\* of candidates each cell in S has under the masks of the running search.
EmptyCells(g) == {p \in Cells : g[p[1]][p[2]] = 0}

ScannedBefore(p) == {q \in Cells : q[1] < p[1] \/ (q[1] = p[1] /\ q[2] < p[2])}

CountAt(p) == bit_count(candidates_mask(row, col, box, p[1], p[2]))

FrameRank(f) ==
    2 * Len(f.ds) + (IF f.d = 0 THEN 2 ELSE 3)

\* The work left in the running search, outermost frame first, then the
\* position of the control.
Rank ==
    [i \in 1..Len(stack) |-> FrameRank(stack[i])]
        \o <<CASE pc \in {"count_start", "solve_start"} -> 23
               [] pc \in {"count_call", "solve_call"} -> 22
               [] pc \in {"count_ret", "solve_ret"} -> 1
               [] OTHER -> 0>>

RankAt(s, i) ==
    IF i <= Len(s) THEN s[i] ELSE 0

\* Lexicographic order on sequences of naturals, the shorter padded with 0.
LexLess(a, b) ==
    \E i \in 1..(IF Len(a) > Len(b) THEN Len(a) ELSE Len(b)) :
        /\ RankAt(a, i) < RankAt(b, i)
        /\ \A j \in 1..(i - 1) : RankAt(a, j) = RankAt(b, j)

\* C19: in both searches a backtrack() call at depth n works on a grid with n
\* fewer empty cells than the grid given, one fewer per level, so the depth
\* never exceeds the number of cells empty at entry (at most 81); and
\* count_solutions and solve_one return: every step of a search lowers Rank,
\* which ranges over a finite set ordered lexicographically (at most 82
\* entries, each at most 23), and the control of a search that has not
\* returned is at a position that has a next step.
C19_Terminates ==
    /\ [](pc \in {"count_call", "count_loop", "count_ret", "solve_call", "solve_loop", "solve_ret"} =>
            /\ Len(stack) <= Zeros(entry)
            /\ Zeros(entry) <= 81
            /\ pc \in {"count_call", "solve_call"} => Zeros(grid) = Zeros(entry) - Len(stack))
    /\ [](Len(Rank) <= 82 /\ \A i \in 1..Len(Rank) : Rank[i] \in 0..23)
    /\ [][LexLess(Rank', Rank)]_vars
    /\ [](/\ pc \in {"count_start", "count_call", "count_loop", "count_ret",
                   "solve_start", "solve_call", "solve_loop", "solve_ret", "done"}
          /\ pc \in {"count_loop", "solve_loop"} => stack # <<>>)

\* The search on the empty grid is 81 calls deep.
C19_Witness ==
    Len(stack) = 81 /\ Zeros(entry) = 81 /\ Zeros(grid) = 0

\* C20: in count_solutions with limit >= 1, once a call has returned a total
\* that brings the running total of its caller to the limit (or is itself at
\* the limit), the caller takes its digit back and returns a total at the
\* limit too, without placing another digit, and so does every enclosing
\* call, until the outermost call returns to count_solutions.
C20_CapStopsPlacing ==
    [][(/\ op = "count_solutions"
        /\ pc = "count_ret"
        /\ limit >= 1
        /\ \/ ret >= limit
           \/ stack # <<>> /\ Top.total + ret >= limit) =>
            IF stack = <<>>
            THEN pc' = "done" /\ result' = ret /\ grid' = grid
            ELSE /\ pc' = "count_ret"
                 /\ ret' >= limit
                 /\ stack' = Pop
                 /\ grid' = [grid EXCEPT ![Top.r][Top.c] = 0]
                 /\ Zeros(grid') = Zeros(grid) + 1]_vars

\* A total at a limit of two or more comes back two or more calls deep, into a
\* call whose loop has digits left to try, as has its caller's loop.
C20_Witness ==
    /\ op = "count_solutions"
    /\ pc = "count_ret"
    /\ limit >= 2
    /\ ret >= limit
    /\ Len(stack) >= 2
    /\ Top.ds # <<>>
    /\ stack[Len(stack) - 1].ds # <<>>

\* The cells the current visit of the digging loop is about.
Targets ==
    LET t == paired(symmetry, cells[ci][1], cells[ci][2])
    IN {t[i] : i \in 1..Len(t)}

\* g with the cells of S emptied and every other cell as it is.
Without(g, S) ==
    [r \in Idx |-> [c \in Idx |-> IF <<r, c>> \in S THEN 0 ELSE g[r][c]]]

CountRunning ==
    pc \in {"count_start", "count_call", "count_loop", "count_ret"}

\* C21: remove_cells_unique never changes `full`; from the moment a visit has
\* emptied its targets until count_solutions has returned, whatever the
\* counter does, the puzzle is the puzzle the visit found with just the
\* targets emptied; a visit that finds its targets empty changes nothing; and
\* when the count is not 1 the puzzle is again, cell for cell, the puzzle the
\* visit found, otherwise it stays as emptied.
C21_DigFrameAndRestore ==
    /\ [][op = "remove_cells_unique" => full' = full]_vars
    /\ []((op = "remove_cells_unique" /\ CountRunning) => puzzle = Without(before, Targets))
    /\ [][(op = "remove_cells_unique" /\ CountRunning /\ CountRunning') => puzzle' = puzzle]_vars
    /\ [][(op = "remove_cells_unique" /\ pc = "dig_loop" /\ pc' = "dig_loop") => puzzle' = puzzle]_vars
    /\ [][(op = "remove_cells_unique" /\ pc = "count_ret" /\ pc' = "dig_loop") =>
            puzzle' = IF ret # 1 THEN before ELSE Without(before, Targets)]_vars

\* A visit in symmetric mode emptied a cell and its partner, the count came
\* back as 2, and both cells have their values again.
C21_Witness ==
    /\ op = "remove_cells_unique"
    /\ pc = "dig_loop"
    /\ ci > 1
    /\ ret = 2
    /\ Len(backup) = 2
    /\ <<backup[1][1], backup[1][2]>> = cells[ci - 1]
    /\ puzzle[backup[1][1]][backup[1][2]] = backup[1][3]
    /\ puzzle[backup[2][1]][backup[2][2]] = backup[2][3]
    /\ backup[1][3] # 0
    /\ backup[2][3] # 0
    /\ puzzle = before
    /\ Zeros(puzzle) > 0

\* C22: when count_solutions has returned, whatever it returned, and when
\* solve_one has returned False, the grid is cell for cell the grid given.
C22_RestoresInput ==
    /\ (op = "count_solutions" /\ pc = "done") => grid = entry
    /\ (op = "solve_one" /\ pc = "done") => (result = FALSE => grid = entry)

\* solve_one returned False on a grid where it had to place a digit (the only
\* candidate of the first empty cell) before it met a cell with no candidate.
C22_Witness ==
    /\ op = "solve_one"
    /\ pc = "done"
    /\ result = FALSE
    /\ entry = ShortCutGrid
    /\ grid = ShortCutGrid

\* The puzzle with cells[k] cleared, alone or with its partner.
ClearedAt(k) ==
    ClearCells(puzzle, paired(symmetry, cells[k][1], cells[k][2]), 1)

\* cells[k] still holds its given.
Given(k) ==
    puzzle[cells[k][1]][cells[k][2]] # 0

\* C23: when remove_cells_unique returns, every cell has been visited and no
\* given that remains can be cleared (alone, or with its partner in symmetric
\* mode) without leaving a grid with two or more valid completions; and a
\* removal that was rejected stays unacceptable: at every later head of the
\* loop, clearing the given whose removal was rejected first still leaves two
\* or more valid completions.
C23_LocallyMinimal ==
    /\ (op = "remove_cells_unique" /\ pc = "done") =>
          /\ ci = Len(cells) + 1 /\ Len(cells) = 81 /\ result = puzzle
          /\ {cells[k] : k \in 1..81} = Cells
          /\ \A k \in 1..81 : Given(k) => NumCompletions(ClearedAt(k), 2) = 2
    /\ (op = "remove_cells_unique" /\ pc = "dig_loop") =>
          \A k \in 1..(ci - 1) :
              (Given(k) /\ \A j \in 1..(k - 1) : ~Given(j)) =>
                  NumCompletions(ClearedAt(k), 2) = 2

\* A dig without symmetry returned; a cell visited in the first half of the
\* pass kept its given while cells visited after it were cleared.
C23_Witness ==
    /\ op = "remove_cells_unique"
    /\ pc = "done"
    /\ ~symmetry
    /\ \E k \in 1..40 :
          /\ result[cells[k][1]][cells[k][2]] # 0
          /\ \E j \in (k + 1)..81 : result[cells[j][1]][cells[j][2]] = 0

====
